---- MODULE Spec2Model ----
(***************************************************************************)
(* A model of biotoolbox/dbutils/mmdb.py: the OneToOneMap key index (two   *)
(* sqlite tables behind one connection), the MemoryMappedDatasetWriter     *)
(* (shard buffer, shard files, buffered manifest handle) and the           *)
(* MemoryMappedDatasetReader (manifest scan, shard assembly, lookups).     *)
(*                                                                         *)
(* Environment modelled with the code:                                     *)
(*  - sqlite: a failed INSERT undoes only itself; earlier statements of    *)
(*    the open transaction stay pending and are lost only when the         *)
(*    connection dies without a commit.                                    *)
(*  - the manifest is written through a buffered text handle: rows reach   *)
(*    the file when the handle's buffer overflows or the handle is closed. *)
(*  - shard files are named by shard index alone: shardfilename carries no *)
(*    directory, so save_shard writes them into the process's working      *)
(*    directory, while the reader looks for that name under <path>/shards. *)
(*    The two are the same place only when the process runs inside         *)
(*    <path>/shards; the working directory is fixed in the initial state   *)
(*    and is the same for writer and reader.                               *)
(*  - float values are integers below 2^25 held in float64 by the shard    *)
(*    buffer and cast to float32 by save_shard.                            *)
(***************************************************************************)
EXTENDS Integers, Sequences, FiniteSets, TLC

\* ---------------------------------------------------------------- bounds
\* MaxProducers bounds the writer objects constructed and the direct calls
\* of save_shard, taken together.
ShardSize == 2
EmbeddingDim == 2
MaxT == 3
MaxShards == 2
MaxProducers == 2
MaxId == 2
MaxMembers == 2
MaxK == 2

\* The handle buffer of open(metadata, 'w') and the sizes of what is written
\* to it ("shard\tshard_id\tn\td\r\n", "shards_000000.shrd\t0\t2\t2\r\n").
BufferBytes == 8192
HeaderBytes == 20

Keys == {"a", "b", "c"}

\* Input vectors: one with a component float32 cannot hold (2^24 + 1), one
\* that float32 holds exactly.
VecA == [i \in 1..EmbeddingDim |-> IF i = 1 THEN 16777217 ELSE 1]
VecB == [i \in 1..EmbeddingDim |-> 2]
Vecs == {VecA, VecB}

\* The arrays handed to a direct save_shard: ShardSize rows, the last one
\* with the component float32 cannot hold.
Arrays == {[r \in 1..ShardSize |-> IF r = ShardSize THEN VecA ELSE VecB]}
NoVec == << >>
OK == "none"

VARIABLES
  w,       \* the writer object: [obj, open, s, t, shard]
  kdb,     \* the writer's OneToOneMap: [conn, read_only, pf, pb]
  mdbuf,   \* the manifest handle's unflushed text: [hdr, rows]
  db,      \* map.db as committed: [exists, fwd, bwd]
  files,   \* shard files of the working directory: index -> n x d float32
  mdfile,  \* metadata.tsv on disk: [exists, hdr, rows]
  dirs,    \* the directories of the store, and whether the working
           \* directory is <path>/shards: [path, shards, cwdIsShards]
  rd,      \* the reader object: [obj, open, shape, matrix, members]
  rkdb,    \* the reader's OneToOneMap
  hist,    \* (key, vector) of every set completed by a writer whose session is
           \* clean, or by the first writer; a direct save_shard ends the record
  clean,   \* the writer was built on an empty path, opened once, nothing raised
  nwriters,\* writer objects constructed so far
  ndirect, \* direct calls of save_shard made so far
  gen,     \* the generator the last keys() call returned: [st, at, more]
  res      \* the last call: [op, key, err, vec, flag]

vars == <<w, kdb, mdbuf, db, files, mdfile, dirs, rd, rkdb, hist, clean, nwriters, ndirect, gen, res>>

\* ------------------------------------------------------------ float32 cast
RECURSIVE Ulp(_)
Ulp(x) == IF x < 16777216 THEN 1 ELSE 2 * Ulp(x \div 2)

\* save_shard: ptr[:] = array[:] into a float32 memmap, round-to-nearest-even.
F32(x) ==
  LET u == Ulp(x)
      q == x \div u
      r == x % u
  IN  IF 2 * r < u THEN q * u
      ELSE IF 2 * r > u THEN (q + 1) * u
      ELSE IF q % 2 = 0 THEN q * u ELSE (q + 1) * u

ZeroVec == [i \in 1..EmbeddingDim |-> 0]
\* _reset_shard: np.zeros((n, d))
Zeros == [i \in 1..ShardSize |-> ZeroVec]

\* ------------------------------------------------------------ OneToOneMap
\* The tables as the connection sees them: committed rows and its own
\* pending inserts.
Fwd(W) == W.db.fwd \cup W.kdb.pf
Bwd(W) == W.db.bwd \cup W.kdb.pb

NewMap(ro) == [conn |-> FALSE, read_only |-> ro, pf |-> {}, pb |-> {}]

Raise(W, e) == [W EXCEPT !.err = e]

\* OneToOneMap.commit
MapCommit(W) ==
  IF ~W.kdb.conn THEN Raise(W, "AttributeError")
  ELSE [W EXCEPT !.db.fwd = Fwd(W), !.db.bwd = Bwd(W),
                 !.kdb.pf = {}, !.kdb.pb = {}]

\* insert into forward (id, prot_id): id is the primary key
InsertForward(W, src, dst) ==
  IF \E p \in Fwd(W) : p[1] = src
  THEN Raise(W, "IntegrityError: forward.id")
  ELSE [W EXCEPT !.kdb.pf = @ \cup {<<src, dst>>}]

\* insert into backward (prot_id, id): prot_id is the primary key
InsertBackward(W, src, dst) ==
  IF \E p \in Bwd(W) : p[1] = dst
  THEN Raise(W, "IntegrityError: backward.prot_id")
  ELSE [W EXCEPT !.kdb.pb = @ \cup {<<dst, src>>}]

\* OneToOneMap.add
MapAdd(W, src, dst, commit) ==
  IF W.kdb.read_only THEN W
  ELSE IF ~W.kdb.conn THEN Raise(W, "AttributeError")
  ELSE LET W1 == InsertForward(W, src, dst)
           W2 == IF W1.err = OK THEN InsertBackward(W1, src, dst) ELSE W1
       IN  IF W2.err = OK /\ commit THEN MapCommit(W2) ELSE W2

\* OneToOneMap.open: sqlite3.connect creates map.db when its directory exists
\* and fails when it does not; CREATE TABLE IF NOT EXISTS for both tables
MapOpen(W) ==
  IF W.kdb.conn THEN W
  ELSE IF ~W.dirs.path THEN Raise(W, "OperationalError")
  ELSE [W EXCEPT !.kdb.conn = TRUE, !.db.exists = TRUE]

\* OneToOneMap.close: commit, close, forget the connection
MapClose(W) ==
  IF W.kdb.conn THEN [MapCommit(W) EXCEPT !.kdb.conn = FALSE] ELSE W

\* OneToOneMap.toggle_readonly
MapToggle(W) == [W EXCEPT !.kdb.read_only = ~@]

\* the directions retrieve accepts
Directions == {"forward", "backward"}

\* OneToOneMap.retrieve over tables f (forward) and b (backward): [err, rows],
\* rows being the row found, as a one-element set, or the empty set for
\* None; any other direction is refused before the tables are looked at.
Retrieve(f, b, q, direction) ==
  IF direction \notin Directions THEN [err |-> "ValueError", rows |-> {}]
  ELSE IF direction = "forward" THEN [err |-> OK, rows |-> {p \in f : p[1] = q}]
  ELSE [err |-> OK, rows |-> {p \in b : p[1] = q}]

\* retrieve that sees committed rows only
MapRetrieveCommitted(W, q, direction) ==
  IF direction \notin Directions THEN Retrieve(W.db.fwd, W.db.bwd, q, direction)
  ELSE IF ~W.kdb.conn THEN [err |-> "AttributeError", rows |-> {}]
  ELSE Retrieve(W.db.fwd, W.db.bwd, q, direction)

\* OneToOneMap.retrieve on the map's own connection: the direction is
\* checked first, then the cursor is taken from the connection
MapRetrieve(W, q, direction) ==
  IF direction \notin Directions THEN Retrieve(Fwd(W), Bwd(W), q, direction)
  ELSE IF ~W.kdb.conn THEN [err |-> "AttributeError", rows |-> {}]
  ELSE Retrieve(Fwd(W), Bwd(W), q, direction)

\* OneToOneMap.keys: select prot_id from backward, as a set: [err, keys]
MapKeys(W) ==
  IF ~W.kdb.conn THEN [err |-> "AttributeError", keys |-> {}]
  ELSE [err |-> OK, keys |-> {p[1] : p \in Bwd(W)}]

\* The order of the rows of "select prot_id from backward": the scan runs
\* over the primary-key index of prot_id, so keys come in key order.
KeyOrder == <<"a", "b", "c">>
Rank(k) == CHOOSE i \in DOMAIN KeyOrder : KeyOrder[i] = k
FirstKey(ks) == CHOOSE k \in ks : \A x \in ks : Rank(k) <= Rank(x)

\* The generator keys() returns, by its state st:
\*   "none"     no generator has been made
\*   "new"      made, its body not yet entered
\*   "running"  its cursor is on the connection; more says whether the
\*              cursor holds a fetched row, at is that row's key
\*   "stale"    running, and the connection has since been closed
\*   "done"     it has returned or raised
NoGen == [st |-> "none", at |-> "", more |-> FALSE]
NewGen == [st |-> "new", at |-> "", more |-> FALSE]
DoneGen == [st |-> "done", at |-> "", more |-> FALSE]

\* the cursor fetches the row after key k among those in the table now
StepAfter(ks, k) ==
  LET rest == {x \in ks : Rank(x) > Rank(k)}
  IN  IF rest = {} THEN [st |-> "running", at |-> "", more |-> FALSE]
      ELSE [st |-> "running", at |-> FirstKey(rest), more |-> TRUE]

\* next(g) for g = keys(): [gen, err, key]. The first next looks the
\* connection up and executes the statement; every next hands out the row
\* the cursor holds and fetches the following one.
KeysNext(g, W) ==
  LET ks == {p[1] : p \in Bwd(W)}
  IN  CASE g.st = "new" /\ ~W.kdb.conn ->
             [gen |-> DoneGen, err |-> "AttributeError", key |-> ""]
        [] g.st = "new" /\ W.kdb.conn /\ ks = {} ->
             [gen |-> DoneGen, err |-> "StopIteration", key |-> ""]
        [] g.st = "new" /\ W.kdb.conn /\ ks # {} ->
             [gen |-> StepAfter(ks, FirstKey(ks)), err |-> OK, key |-> FirstKey(ks)]
        [] g.st = "running" /\ g.more ->
             [gen |-> StepAfter(ks, g.at), err |-> OK, key |-> g.at]
        [] g.st = "running" /\ ~g.more ->
             [gen |-> DoneGen, err |-> "StopIteration", key |-> ""]
        [] g.st = "stale" ->
             [gen |-> DoneGen, err |-> "ProgrammingError", key |-> ""]
        [] OTHER ->
             [gen |-> DoneGen, err |-> "StopIteration", key |-> ""]

\* close() on the connection a generator's cursor belongs to
CloseGen(g) == IF g.st = "running" THEN [g EXCEPT !.st = "stale"] ELSE g

\* ------------------------------------------------------------ writer
World == [w |-> w, kdb |-> kdb, mdbuf |-> mdbuf, db |-> db, files |-> files,
          mdfile |-> mdfile, dirs |-> dirs, err |-> OK, flag |-> FALSE]

Install(W) ==
  /\ w' = W.w
  /\ kdb' = W.kdb
  /\ mdbuf' = W.mdbuf
  /\ db' = W.db
  /\ files' = W.files
  /\ mdfile' = W.mdfile
  /\ dirs' = W.dirs

\* MemoryMappedDatasetWriter.__init__
NewWriter == [obj |-> TRUE, open |-> FALSE, s |-> 0, t |-> 0, shard |-> NoVec]

RECURSIVE Digits(_)
\* the number of decimal digits str() gives a non-negative integer
Digits(x) == IF x < 10 THEN 1 ELSE 1 + Digits(x \div 10)

\* the length of shardfilename: "shards_", the counter padded to six
\* digits, ".shrd"
NameBytes(s) == 7 + (IF Digits(s) > 6 THEN Digits(s) ELSE 6) + 5

\* the length of one manifest row: the four fields, three tabs and "\r\n"
RowBytes(row) ==
  NameBytes(row.shard) + Digits(row.shard_id) + Digits(row.n) + Digits(row.d) + 5

RECURSIVE SumBytes(_)
SumBytes(rows) == IF rows = << >> THEN 0 ELSE RowBytes(Head(rows)) + SumBytes(Tail(rows))

\* the length of the text the handle's buffer holds
PendingBytes(b) == (IF b.hdr THEN HeaderBytes ELSE 0) + SumBytes(b.rows)

\* what the handle's buffer holds reaches the file
FlushManifest(W) ==
  [W EXCEPT !.mdfile = [exists |-> TRUE,
                        hdr |-> W.mdfile.hdr \/ W.mdbuf.hdr,
                        rows |-> W.mdfile.rows \o W.mdbuf.rows],
            !.mdbuf = [hdr |-> FALSE, rows |-> << >>]]

\* a write of item ([hdr, rows]) to the handle: text already pending goes
\* to the file first when the item would not fit beside it, the item then
\* joins the buffer, and a buffer that has reached its size is flushed
WriteManifest(W, item) ==
  LET W1 == IF PendingBytes(W.mdbuf) > 0
               /\ PendingBytes(W.mdbuf) + PendingBytes(item) > BufferBytes
            THEN FlushManifest(W) ELSE W
      W2 == [W1 EXCEPT !.mdbuf = [hdr |-> @.hdr \/ item.hdr, rows |-> @.rows \o item.rows]]
  IN  IF PendingBytes(W2.mdbuf) >= BufferBytes THEN FlushManifest(W2) ELSE W2

\* MemoryMappedDatasetWriter._reset_shard
ResetShard(W) == [W EXCEPT !.w.shard = Zeros]

\* self.path.mkdir(exist_ok=True, parents=True)
MkdirPath(W) == [W EXCEPT !.dirs.path = TRUE]

\* self.shards.mkdir(exist_ok=True, parents=True)
MkdirShards(W) == [W EXCEPT !.dirs.path = TRUE, !.dirs.shards = TRUE]

\* MemoryMappedDatasetWriter.open
WriterOpen(W) ==
  IF W.w.open THEN W
  ELSE LET W1 == MapOpen(MkdirShards(MkdirPath(W)))
           W2 == [W1 EXCEPT !.mdfile = [exists |-> TRUE, hdr |-> FALSE, rows |-> << >>],
                            !.mdbuf = [hdr |-> FALSE, rows |-> << >>]]
           W3 == WriteManifest(W2, [hdr |-> TRUE, rows |-> << >>])
       IN  [ResetShard(W3) EXCEPT !.w.open = TRUE]

\* np.memmap(outfile, dtype='float32', mode='w+', shape=array.shape): the
\* file outfile of the working directory is created, or emptied, and
\* zero-filled in the shape of the array. Shard files are known by index:
\* outfile i is "shards_00000i.shrd".
CreateShard(W, array, outfile) ==
  [W EXCEPT !.files = [i \in DOMAIN W.files \cup {outfile} |->
                         IF i = outfile
                         THEN [r \in DOMAIN array |-> [j \in DOMAIN array[r] |-> 0]]
                         ELSE W.files[i]]]

\* ptr[:] = array[:] as far as its first c elements, row by row: each is
\* cast to float32 on its way into the file.
CopyShard(W, array, outfile, c) ==
  [W EXCEPT !.files[outfile] = [r \in DOMAIN @ |-> [j \in DOMAIN @[r] |->
                                  IF (r - 1) * EmbeddingDim + j <= c
                                  THEN F32(array[r][j]) ELSE @[r][j]]]]

\* save_shard(array, outfile): the whole array goes to the file, cast to
\* float32.
save_shard(W, array, outfile) ==
  CopyShard(CreateShard(W, array, outfile), array, outfile, Len(array) * EmbeddingDim)

\* MemoryMappedDatasetWriter._save_shard: the n x d buffer goes to the file
\* named by the shard counter.
SaveShard(W) == save_shard(W, W.w.shard, W.w.s)

\* MemoryMappedDatasetWriter._record
Record(W) ==
  LET row == [shard |-> W.w.s, shard_id |-> W.w.s, n |-> ShardSize, d |-> EmbeddingDim]
      W1 == WriteManifest(W, [hdr |-> FALSE, rows |-> <<row>>])
  IN  [W1 EXCEPT !.w.s = @ + 1]

Rollover(W) ==
  LET W1 == MapCommit(ResetShard(Record(SaveShard(W))))
  IN  [W1 EXCEPT !.flag = TRUE]

\* self._shard[self._t % self._n] = value: a value of length d fills the row,
\* one of length 1 is broadcast over it, any other length raises.
StoreValue(W, value) ==
  IF Len(value) = EmbeddingDim
  THEN [W EXCEPT !.w.shard[(W.w.t % ShardSize) + 1] = value]
  ELSE IF Len(value) = 1
  THEN [W EXCEPT !.w.shard[(W.w.t % ShardSize) + 1] = [i \in 1..EmbeddingDim |-> value[1]]]
  ELSE Raise(W, "ValueError")

\* set without the test of __open
WriterSetUnguarded(W, key, value, commit) ==
  LET W1 == IF W.w.t # 0 /\ W.w.t % ShardSize = 0 THEN Rollover(W) ELSE W
      W2 == IF W1.err = OK THEN StoreValue(W1, value) ELSE W1
      W3 == IF W2.err = OK THEN MapAdd(W2, W2.w.t, key, commit) ELSE W2
  IN  IF W3.err = OK THEN [W3 EXCEPT !.w.t = @ + 1] ELSE W3

\* MemoryMappedDatasetWriter.set
WriterSet(W, key, value, commit) ==
  IF ~W.w.open THEN W
  ELSE LET W1 == IF W.w.t # 0 /\ W.w.t % ShardSize = 0 THEN Rollover(W) ELSE W
           W2 == IF W1.err = OK THEN StoreValue(W1, value) ELSE W1
           W3 == IF W2.err = OK THEN MapAdd(W2, W2.w.t, key, commit) ELSE W2
       IN  IF W3.err = OK THEN [W3 EXCEPT !.w.t = @ + 1] ELSE W3

\* close without the test of __open
WriterCloseUnguarded(W) ==
  LET W1 == FlushManifest(MapClose(Record(SaveShard(W))))
  IN  [W1 EXCEPT !.w.open = FALSE, !.w.shard = NoVec]

\* MemoryMappedDatasetWriter.close
WriterClose(W) ==
  IF ~W.w.open THEN W
  ELSE LET W1 == FlushManifest(MapClose(Record(SaveShard(W))))
       IN  [W1 EXCEPT !.w.open = FALSE, !.w.shard = NoVec]

\* The process is killed: the objects, the connection's pending inserts and
\* the handle's unflushed text are gone; files keep what reached them.
Die(W) ==
  [W EXCEPT !.w = [NewWriter EXCEPT !.obj = FALSE],
            !.kdb = NewMap(FALSE),
            !.mdbuf = [hdr |-> FALSE, rows |-> << >>]]


\* ------------------------------------------------------------ reader
\* MemoryMappedDatasetReader.__init__ (the result of __validate is dropped)
NewReader == [obj |-> TRUE, open |-> FALSE, shape |-> << >>, matrix |-> << >>,
              members |-> << >>]

RECURSIVE SumN(_)
\* N += int(row['n']) over the manifest's rows
SumN(rows) == IF rows = << >> THEN 0 ELSE Head(rows).n + SumN(Tail(rows))

\* the files found under <path>/shards: those save_shard wrote, when the
\* working directory is that directory, and none otherwise
ShardsDir(fs, d) == IF d.cwdIsShards THEN fs ELSE << >>

RECURSIVE Assemble(_, _, _, _)
\* the loop over shard_md: map each row's shard file and copy it into the
\* staging matrix at the running offset; a missing file ends the loop.
Assemble(R, rows, offset, fs) ==
  IF rows = << >> THEN R
  ELSE LET row == Head(rows)
       IN  IF row.shard \notin DOMAIN fs
           THEN [R EXCEPT !.err = "FileNotFoundError"]
           ELSE Assemble(
                  [R EXCEPT !.rd.matrix = [i \in DOMAIN @ |->
                               IF i > offset /\ i <= offset + row.n
                               THEN fs[row.shard][i - offset] ELSE @[i]],
                            !.rd.members = Append(@, row.shard)],
                  Tail(rows), offset + row.n, fs)

\* MemoryMappedDatasetReader.open; R is [rd, rkdb, db, dirs, err]
ReaderOpenResult(R, md, fs) ==
  IF R.rd.open THEN R
  ELSE LET M == MapOpen([kdb |-> R.rkdb, db |-> R.db, dirs |-> R.dirs, err |-> OK])
           R1 == [R EXCEPT !.rkdb = M.kdb, !.db = M.db, !.err = M.err]
       IN  IF R1.err # OK THEN R1
           ELSE IF ~md.exists THEN [R1 EXCEPT !.err = "FileNotFoundError"]
           ELSE IF md.rows = << >> THEN [R1 EXCEPT !.err = "IndexError"]
           ELSE LET N == SumN(md.rows)
                    d == md.rows[1].d
                    R2 == [R1 EXCEPT !.rd.shape = <<N, d>>,
                                     !.rd.matrix = [i \in 1..N |-> [j \in 1..d |-> 0]]]
                IN  Assemble(R2, md.rows, 0, ShardsDir(fs, R.dirs))

\* MemoryMappedDatasetReader.close; R is [rd, rkdb, db, err]
ReaderCloseResult(R) ==
  IF ~R.rd.open THEN R
  ELSE LET M == MapClose([kdb |-> R.rkdb, db |-> R.db, err |-> OK])
       IN  [R EXCEPT !.rkdb = M.kdb, !.db = M.db,
                     !.rd.matrix = << >>, !.rd.members = << >>,
                     !.rd.shape = << >>, !.rd.open = FALSE]

\* MemoryMappedDatasetReader.get_direction
GetDirection(isString) == IF isString THEN "backward" ELSE "forward"

\* result[0] if direction == 'forward' else result[1]
VectorId(row, direction) == IF direction = "forward" THEN row[1] ELSE row[2]

\* MemoryMappedDatasetReader.get for a string key: [err, vec]
GetResult(key) ==
  LET direction == GetDirection(TRUE)
      found == Retrieve(db.fwd \cup rkdb.pf, db.bwd \cup rkdb.pb, key, direction).rows
  IN  IF ~rkdb.conn THEN [err |-> "AttributeError", vec |-> NoVec]
      ELSE IF found = {} THEN [err |-> "ValueError", vec |-> NoVec]
      ELSE LET id == VectorId(CHOOSE p \in found : TRUE, direction)
           IN  IF rd.matrix = << >> THEN [err |-> "TypeError", vec |-> NoVec]
               ELSE IF id >= Len(rd.matrix) THEN [err |-> "IndexError", vec |-> NoVec]
               ELSE [err |-> OK, vec |-> rd.matrix[id + 1]]

\* MemoryMappedDatasetReader.get for an integer id: [err, vec]
GetIdResult(id) ==
  LET direction == GetDirection(FALSE)
      found == Retrieve(db.fwd \cup rkdb.pf, db.bwd \cup rkdb.pb, id, direction).rows
  IN  IF ~rkdb.conn THEN [err |-> "AttributeError", vec |-> NoVec]
      ELSE IF found = {} THEN [err |-> "ValueError", vec |-> NoVec]
      ELSE LET vid == VectorId(CHOOSE p \in found : TRUE, direction)
           IN  IF rd.matrix = << >> THEN [err |-> "TypeError", vec |-> NoVec]
               ELSE IF vid >= Len(rd.matrix) THEN [err |-> "IndexError", vec |-> NoVec]
               ELSE [err |-> OK, vec |-> rd.matrix[vid + 1]]

\* ------------------------------------------------------------ KNNDatabase
\* The wrapped index answers a query with k row numbers of the table it was
\* built over, nearest first: any k distinct rows.
RECURSIVE Distinct(_)
Distinct(q) ==
  IF q = << >> THEN TRUE
  ELSE (\A i \in 1..Len(Tail(q)) : Tail(q)[i] # Head(q)) /\ Distinct(Tail(q))

IndexAnswers(N) ==
  {q \in UNION {[1..k -> 0..N - 1] : k \in 1..MaxK} : Distinct(q)}

RECURSIVE ResolveKeys(_, _)
\* the loop of nearest_neighbors: get_id(int(nid)) on the reader, the key
\* taken from the forward row; acc is [err, keys]
ResolveKeys(nbrs, acc) ==
  IF nbrs = << >> \/ acc.err # OK THEN acc
  ELSE LET found == Retrieve(db.fwd \cup rkdb.pf, db.bwd \cup rkdb.pb, Head(nbrs),
                             GetDirection(FALSE)).rows
       IN  IF ~rkdb.conn THEN [acc EXCEPT !.err = "AttributeError"]
           ELSE IF found = {} THEN [acc EXCEPT !.err = "ValueError"]
           ELSE ResolveKeys(Tail(nbrs),
                            [acc EXCEPT !.keys = Append(@, (CHOOSE p \in found : TRUE)[2])])

\* KNNDatabase.nearest_neighbors on the index's answer for one query vector:
\* np.squeeze turns the (1, k) arrays into (k,) ones, and for k = 1 into
\* 0-d ones, which the for loop cannot iterate.
NearestNeighbors(nbrs) ==
  IF Len(nbrs) = 1 THEN [err |-> "TypeError", keys |-> << >>]
  ELSE ResolveKeys(nbrs, [err |-> OK, keys |-> << >>])

\* ------------------------------------------------------------ actions
Result(op, key, e, vec, flag) ==
  [op |-> op, key |-> key, err |-> e, vec |-> vec, flag |-> flag]

StoreEmpty ==
  /\ ~db.exists /\ ~mdfile.exists
  /\ db.fwd = {} /\ db.bwd = {} /\ DOMAIN files = {}

\* nothing constructed yet; ro is the mode of the key index, pathExists says
\* whether the directory that will hold map.db is there, inShards whether
\* the process runs inside <path>/shards (both directories then exist, empty)
InitState(ro, pathExists, inShards) ==
  /\ w = [NewWriter EXCEPT !.obj = FALSE]
  /\ kdb = NewMap(ro)
  /\ mdbuf = [hdr |-> FALSE, rows |-> << >>]
  /\ db = [exists |-> FALSE, fwd |-> {}, bwd |-> {}]
  /\ files = << >>
  /\ mdfile = [exists |-> FALSE, hdr |-> FALSE, rows |-> << >>]
  /\ dirs = [path |-> pathExists \/ inShards, shards |-> inShards,
             cwdIsShards |-> inShards]
  /\ rd = [obj |-> FALSE, open |-> FALSE, shape |-> << >>, matrix |-> << >>,
           members |-> << >>]
  /\ rkdb = NewMap(TRUE)
  /\ hist = << >>
  /\ clean = FALSE
  /\ nwriters = 0
  /\ ndirect = 0
  /\ gen = NoGen
  /\ res = Result("init", "", OK, NoVec, FALSE)

Init == \E inShards \in BOOLEAN : InitState(FALSE, FALSE, inShards)

\* writer = MemoryMappedDatasetWriter(path, d, n)
WriterInit ==
  /\ ~rd.obj
  /\ ~(w.obj /\ w.open)
  /\ nwriters + ndirect < MaxProducers
  /\ w' = NewWriter
  /\ kdb' = NewMap(FALSE)
  /\ hist' = << >>
  /\ clean' = StoreEmpty
  /\ nwriters' = nwriters + 1
  /\ res' = Result("winit", "", OK, NoVec, FALSE)
  /\ UNCHANGED <<mdbuf, db, files, mdfile, dirs, rd, rkdb, ndirect, gen>>

\* writer.open()
Open ==
  /\ w.obj /\ ~rd.obj
  /\ Install(WriterOpen(World))
  /\ clean' = IF w.open THEN clean ELSE clean /\ ~mdfile.exists
  /\ res' = Result("open", "", OK, NoVec, FALSE)
  /\ UNCHANGED <<rd, rkdb, hist, nwriters, ndirect, gen>>

\* writer.set(key, value, commit)
Set(key, value, commit) ==
  /\ w.obj /\ ~rd.obj
  /\ w.t < MaxT
  /\ w.s < MaxShards
  /\ LET W == WriterSet(World, key, value, commit)
     IN  /\ Install(W)
         /\ hist' = IF W.w.t > w.t /\ (clean \/ (nwriters = 1 /\ ndirect = 0))
                    THEN Append(hist, <<key, value>>) ELSE hist
         /\ clean' = (clean /\ W.err = OK)
         /\ res' = Result("set", key, W.err, value, W.flag /\ W.err = OK)
  /\ UNCHANGED <<rd, rkdb, nwriters, ndirect, gen>>

\* writer.close(); the flag records whether the writer was open
Close ==
  /\ w.obj /\ ~rd.obj
  /\ w.s < MaxShards
  /\ Install(WriterClose(World))
  /\ res' = Result("close", "", OK, NoVec, w.open)
  /\ UNCHANGED <<rd, rkdb, hist, clean, nwriters, ndirect, gen>>

\* the writer's process is killed between two calls
Kill ==
  /\ w.obj /\ w.open /\ ~rd.obj
  /\ Install(Die(World))
  /\ res' = Result("kill", "", OK, NoVec, FALSE)
  /\ UNCHANGED <<rd, rkdb, hist, clean, nwriters, ndirect, gen>>

\* save_shard(array, outfile) called directly, in the working directory,
\* with outfile the name of a shard file
SaveShardCall(array, outfile) ==
  /\ ~rd.obj
  /\ nwriters + ndirect < MaxProducers
  /\ Install(save_shard(World, array, outfile))
  /\ ndirect' = ndirect + 1
  /\ clean' = FALSE
  /\ hist' = << >>
  /\ res' = Result("save_shard", "", OK, NoVec, FALSE)
  /\ UNCHANGED <<rd, rkdb, nwriters, gen>>

\* the process is killed inside a direct save_shard: the file has been
\* created and c of its elements copied
KillInSaveShardCall(array, outfile, c) ==
  /\ ~rd.obj
  /\ nwriters + ndirect < MaxProducers
  /\ Install(Die(CopyShard(CreateShard(World, array, outfile), array, outfile, c)))
  /\ ndirect' = ndirect + 1
  /\ clean' = FALSE
  /\ hist' = << >>
  /\ res' = Result("kill", "", OK, NoVec, FALSE)
  /\ UNCHANGED <<rd, rkdb, nwriters, gen>>

\* the writer's process is killed inside save_shard, called by close or by
\* set's rollover: the file has been created and c of its elements copied
KillInSaveShard(c) ==
  /\ w.obj /\ w.open /\ ~rd.obj
  /\ w.s < MaxShards
  /\ Install(Die(CopyShard(CreateShard(World, w.shard, w.s), w.shard, w.s, c)))
  /\ res' = Result("kill", "", OK, NoVec, FALSE)
  /\ UNCHANGED <<rd, rkdb, hist, clean, nwriters, ndirect, gen>>

\* the writer's process is killed inside set's rollover, after its first
\* (shard saved), second (row written) or third (index committed) step
KillInRollover(k) ==
  /\ w.obj /\ w.open /\ ~rd.obj
  /\ w.s < MaxShards
  /\ w.t # 0 /\ w.t % ShardSize = 0
  /\ LET W1 == SaveShard(World)
         W2 == Record(W1)
         W3 == MapCommit(ResetShard(W2))
     IN  Install(Die(IF k = 1 THEN W1 ELSE IF k = 2 THEN W2 ELSE W3))
  /\ res' = Result("kill", "", OK, NoVec, FALSE)
  /\ UNCHANGED <<rd, rkdb, hist, clean, nwriters, ndirect, gen>>

\* the writer's process is killed inside close, after its first (shard
\* saved), second (row written) or third (index closed) step
KillInClose(k) ==
  /\ w.obj /\ w.open /\ ~rd.obj
  /\ w.s < MaxShards
  /\ LET W1 == SaveShard(World)
         W2 == Record(W1)
         W3 == MapClose(W2)
     IN  Install(Die(IF k = 1 THEN W1 ELSE IF k = 2 THEN W2 ELSE W3))
  /\ res' = Result("kill", "", OK, NoVec, FALSE)
  /\ UNCHANGED <<rd, rkdb, hist, clean, nwriters, ndirect, gen>>

\* the writer's process is killed inside open, after its first (path made),
\* second (shards/ made) or third (map.db created) step
KillInOpen(k) ==
  /\ w.obj /\ ~w.open /\ ~rd.obj
  /\ LET W1 == MkdirPath(World)
         W2 == MkdirShards(W1)
         W3 == MapOpen(W2)
     IN  Install(Die(IF k = 1 THEN W1 ELSE IF k = 2 THEN W2 ELSE W3))
  /\ res' = Result("kill", "", OK, NoVec, FALSE)
  /\ UNCHANGED <<rd, rkdb, hist, clean, nwriters, ndirect, gen>>

\* reader = MemoryMappedDatasetReader(path), once no writer is live
ReaderInit ==
  /\ ~rd.obj
  /\ ~(w.obj /\ w.open)
  /\ rd' = NewReader
  /\ rkdb' = NewMap(TRUE)
  /\ res' = Result("rinit", "", OK, NoVec, FALSE)
  /\ UNCHANGED <<w, kdb, mdbuf, db, files, mdfile, dirs, hist, clean, nwriters, ndirect, gen>>

\* reader.open()
ReaderOpen ==
  /\ rd.obj
  /\ Len(rd.members) <= MaxMembers
  /\ LET R == ReaderOpenResult([rd |-> rd, rkdb |-> rkdb, db |-> db, dirs |-> dirs,
                                err |-> OK], mdfile, files)
     IN  /\ rd' = R.rd
         /\ rkdb' = R.rkdb
         /\ db' = R.db
         /\ res' = Result("ropen", "", R.err, NoVec, FALSE)
  /\ UNCHANGED <<w, kdb, mdbuf, files, mdfile, dirs, hist, clean, nwriters, ndirect, gen>>

\* reader.close()
ReaderClose ==
  /\ rd.obj
  /\ LET R == ReaderCloseResult([rd |-> rd, rkdb |-> rkdb, db |-> db, err |-> OK])
     IN  /\ rd' = R.rd
         /\ rkdb' = R.rkdb
         /\ db' = R.db
         /\ res' = Result("rclose", "", R.err, NoVec, FALSE)
  /\ UNCHANGED <<w, kdb, mdbuf, files, mdfile, dirs, hist, clean, nwriters, ndirect, gen>>

\* reader.get(key) with a string key
ReaderGet(key) ==
  /\ rd.obj
  /\ res' = Result("get", key, GetResult(key).err, GetResult(key).vec, FALSE)
  /\ UNCHANGED <<w, kdb, mdbuf, db, files, mdfile, dirs, rd, rkdb, hist, clean, nwriters, ndirect, gen>>

\* reader.get(id) with an integer id
ReaderGetId(id) ==
  /\ rd.obj
  /\ res' = [op |-> "geti", key |-> "", err |-> GetIdResult(id).err,
             vec |-> GetIdResult(id).vec, flag |-> FALSE, id |-> id]
  /\ UNCHANGED <<w, kdb, mdbuf, db, files, mdfile, dirs, rd, rkdb, hist, clean, nwriters, ndirect, gen>>

\* KNNDatabase(reader, index).nearest_neighbors(xq, k) for one query vector,
\* the index answering with the rows nbrs
ReaderNearest(nbrs) ==
  /\ rd.obj /\ rd.matrix # << >>
  /\ res' = [op |-> "knn", key |-> "", err |-> NearestNeighbors(nbrs).err,
             vec |-> nbrs, flag |-> FALSE, keys |-> NearestNeighbors(nbrs).keys]
  /\ UNCHANGED <<w, kdb, mdbuf, db, files, mdfile, dirs, rd, rkdb, hist, clean, nwriters, ndirect, gen>>

Next ==
  \/ WriterInit
  \/ Open
  \/ \E key \in Keys, value \in Vecs, commit \in BOOLEAN : Set(key, value, commit)
  \/ Close
  \/ Kill
  \/ \E k \in 1..3 : KillInRollover(k)
  \/ \E k \in 1..3 : KillInOpen(k)
  \/ \E k \in 1..3 : KillInClose(k)
  \/ \E c \in 0..(ShardSize * EmbeddingDim - 1) : KillInSaveShard(c)
  \/ \E array \in Arrays, outfile \in 0..(MaxShards - 1) : SaveShardCall(array, outfile)
  \/ \E array \in Arrays, outfile \in 0..(MaxShards - 1), c \in 0..(ShardSize * EmbeddingDim - 1) :
       KillInSaveShardCall(array, outfile, c)
  \/ ReaderInit
  \/ ReaderOpen
  \/ ReaderClose
  \/ \E key \in Keys : ReaderGet(key)
  \/ \E id \in 0..MaxT : ReaderGetId(id)

Spec == Init /\ [][Next]_vars

\* ------------------------------------------------------------ the key index alone
\* A OneToOneMap driven directly: any calls, in any order.
InitMap == \E ro \in BOOLEAN : InitState(ro, TRUE, FALSE)

MapVars == <<w, mdbuf, files, mdfile, dirs, rd, rkdb, hist, clean, nwriters, ndirect>>

MapCall(op, key, W) ==
  /\ kdb' = W.kdb
  /\ db' = W.db
  /\ res' = Result(op, key, W.err, NoVec, FALSE)
  /\ UNCHANGED MapVars

MOpen == MapCall("mopen", "", MapOpen(World)) /\ UNCHANGED gen

MAdd(src, dst, commit) ==
  /\ res' = Result("add", dst, MapAdd(World, src, dst, commit).err, <<src>>, commit)
  /\ kdb' = MapAdd(World, src, dst, commit).kdb
  /\ db' = MapAdd(World, src, dst, commit).db
  /\ UNCHANGED gen
  /\ UNCHANGED MapVars

MCommit == MapCall("commit", "", MapCommit(World)) /\ UNCHANGED gen

MClose ==
  /\ MapCall("mclose", "", MapClose(World))
  /\ gen' = IF kdb.conn THEN CloseGen(gen) ELSE gen

MToggle == MapCall("toggle", "", MapToggle(World)) /\ UNCHANGED gen

\* the process holding the connection is killed
MKill ==
  /\ kdb.conn
  /\ MapCall("kill", "", [World EXCEPT !.kdb = NewMap(kdb.read_only)])
  /\ gen' = NoGen

\* retrieve(id, "forward"): the key found, if any
MRetrieveForward(id) ==
  LET r == MapRetrieve(World, id, "forward")
  IN  /\ res' = Result("retrieve", IF r.rows = {} THEN "" ELSE (CHOOSE p \in r.rows : TRUE)[2],
                       r.err, <<id>>, r.rows # {})
      /\ UNCHANGED <<kdb, db, gen>>
      /\ UNCHANGED MapVars

\* retrieve(key, "backward"): the id found, if any
MRetrieveBackward(key) ==
  LET r == MapRetrieve(World, key, "backward")
  IN  /\ res' = Result("retrieveb", key, r.err,
                       IF r.rows = {} THEN NoVec ELSE <<(CHOOSE p \in r.rows : TRUE)[2]>>,
                       r.rows # {})
      /\ UNCHANGED <<kdb, db, gen>>
      /\ UNCHANGED MapVars

\* retrieve(id, direction) with a direction that is neither of the two
MRetrieveOther(id) ==
  LET r == MapRetrieve(World, id, "sideways")
  IN  /\ res' = Result("retrievex", "", r.err, <<id>>, r.rows # {})
      /\ UNCHANGED <<kdb, db, gen>>
      /\ UNCHANGED MapVars

\* list(keys())
MKeys ==
  /\ res' = [op |-> "keys", key |-> "", err |-> MapKeys(World).err, vec |-> NoVec,
             flag |-> FALSE, keys |-> MapKeys(World).keys]
  /\ UNCHANGED <<kdb, db, gen>>
  /\ UNCHANGED MapVars

\* g = keys(): a generator is made; nothing of its body runs
MKeysCall ==
  /\ gen' = NewGen
  /\ res' = Result("keyscall", "", OK, NoVec, FALSE)
  /\ UNCHANGED <<kdb, db>>
  /\ UNCHANGED MapVars

\* next(g)
MKeysNext ==
  /\ gen.st # "none"
  /\ gen' = KeysNext(gen, World).gen
  /\ res' = Result("next", KeysNext(gen, World).key, KeysNext(gen, World).err, NoVec, FALSE)
  /\ UNCHANGED <<kdb, db>>
  /\ UNCHANGED MapVars

NextMap ==
  \/ MOpen
  \/ \E src \in 0..MaxId, dst \in Keys, commit \in BOOLEAN : MAdd(src, dst, commit)
  \/ MCommit
  \/ MClose
  \/ MToggle
  \/ MKill
  \/ \E id \in 0..MaxId : MRetrieveForward(id)
  \/ \E key \in Keys : MRetrieveBackward(key)
  \/ \E id \in 0..MaxId : MRetrieveOther(id)
  \/ MKeys
  \/ MKeysCall
  \/ MKeysNext

SpecMap == InitMap /\ [][NextMap]_vars

\* ------------------------------------------------------------ one writer, then a reader
\* One writer object on an empty path, called freely, and a reader after it.
NextSession ==
  \/ (nwriters = 0 /\ WriterInit)
  \/ Open
  \/ \E key \in Keys, value \in Vecs, commit \in BOOLEAN : Set(key, value, commit)
  \/ Close
  \/ ReaderInit
  \/ ReaderOpen
  \/ ReaderClose
  \/ \E key \in Keys : ReaderGet(key)
  \/ \E id \in 0..MaxT : ReaderGetId(id)

SpecSession == Init /\ [][NextSession]_vars

\* ------------------------------------------------------------ the store behind an index
\* The session, and nearest-neighbour queries on the opened reader.
NextKnn ==
  \/ NextSession
  \/ \E nbrs \in IndexAnswers(Len(rd.matrix)) : ReaderNearest(nbrs)

SpecKnn == Init /\ [][NextKnn]_vars

\* ------------------------------------------------------------ properties
\* A first writer on an empty path that was opened once, saw no call raise
\* and has been closed.
Finished == clean /\ w.obj /\ ~w.open /\ mdfile.exists

\* A first writer on an empty path, killed while open with no call raised.
Killed == clean /\ ~w.obj

CeilDiv(m, n) == (m + n - 1) \div n

IsPrefix(a, b) == Len(a) <= Len(b) /\ \A i \in 1..Len(a) : a[i] = b[i]

\* the manifest as written through the handle, flushed or not
ManifestRows == mdfile.rows \o mdbuf.rows

\* a get on a reader that was opened on the store a finished writer left
ReadBack == Finished /\ rkdb.conn /\ res.op = "get"

\* C1: after set(key_i, v_i) with distinct keys and close(), a reader opened
\* on the same path returns v_i for get(key_i).
C1_GetReturnsValue ==
  ReadBack =>
    \A i \in 1..Len(hist) :
      hist[i][1] = res.key => (res.err = OK /\ res.vec = hist[i][2])

\* C2: after m >= 1 successful sets and close(), the opened reader's table
\* length is m.
C2_LengthIsCount ==
  (Finished /\ Len(hist) >= 1 /\ res.op = "ropen") =>
    (res.err = OK /\ rd.shape[1] = Len(hist))

\* C3: after m >= 1 successful sets and close() there are ceil(m/n) shard
\* files and manifest rows, shard_id 0.. in order, every row but the last
\* recording n vectors and the last recording m - n*(ceil(m/n) - 1).
C3_ShardOccupancies ==
  (Finished /\ Len(hist) >= 1) =>
    LET m == Len(hist)
        c == CeilDiv(m, ShardSize)
    IN  /\ DOMAIN files = 0..(c - 1)
        /\ Len(mdfile.rows) = c
        /\ \A i \in 1..c :
             /\ mdfile.rows[i].shard_id = i - 1
             /\ mdfile.rows[i].n = IF i < c THEN ShardSize ELSE m - ShardSize * (c - 1)

\* C4: a set whose key is already registered raises and leaves the id
\* counter, the shard counter, the manifest, the shard buffer and the key
\* index as they were.
C4_DuplicateSetChangesNothing ==
  [][(res'.op = "set" /\ w.open /\ \E p \in Bwd(World) : p[1] = res'.key) =>
       /\ res'.err # OK
       /\ w' = w
       /\ kdb' = kdb /\ db' = db
       /\ mdbuf' = mdbuf /\ mdfile' = mdfile /\ files' = files]_vars

\* C5: the set that follows a set failed on a duplicate key, given a key
\* never registered, succeeds under the id the failed call would have used.
C5_UsableAfterDuplicate ==
  [][(/\ res.op = "set" /\ res.err = "IntegrityError: backward.prot_id"
      /\ res'.op = "set"
      /\ \A p \in Fwd(World) : p[2] # res'.key
      /\ \A p \in Bwd(World) : p[1] # res'.key) =>
       /\ res'.err = OK
       /\ <<w.t, res'.key>> \in db'.fwd \cup kdb'.pf]_vars

\* C6: forward holds (id, key) exactly when backward holds (key, id).
C6_RelationsMirror ==
  {<<p[2], p[1]>> : p \in Fwd(World)} = Bwd(World)

\* C7: every id committed to the key index and every manifest row on disk
\* refers to a shard whose file has been written.
C7_DurableRefersToSavedShards ==
  /\ \A p \in db.fwd : (p[1] \div ShardSize) \in DOMAIN files
  /\ \A i \in 1..Len(mdfile.rows) : mdfile.rows[i].shard \in DOMAIN files

\* C8: a reader opened on what a killed writer left, shards 0..s saved,
\* opens and exposes exactly the ids 0 .. (s+1)*n - 1 and their keys.
C8_CrashLeavesSavedShards ==
  (Killed /\ DOMAIN files # {} /\ res.op = "ropen") =>
    LET saved == ShardSize * Cardinality(DOMAIN files)
    IN  /\ res.err = OK
        /\ rd.shape[1] = saved
        /\ {p[1] : p \in db.bwd}
             = {hist[i][1] : i \in {j \in 1..Len(hist) : j <= saved}}

\* C9: across writer construction, open, set and close the manifest only
\* grows: what was written stays, in order.
C9_ManifestAppendOnly ==
  [][res'.op \in {"winit", "open", "set", "close"} =>
       IsPrefix(ManifestRows, ManifestRows')]_vars

\* C10: add on a read-only index raises and changes neither table.
C10_ReadOnlyAddRaises ==
  [][(res'.op = "add" /\ kdb.read_only) =>
       (res'.err # OK /\ kdb' = kdb /\ db' = db)]_vars

\* the writer's fields, its key index and everything it keeps on disk
WriterUnchanged ==
  /\ w' = w
  /\ kdb' = kdb /\ db' = db
  /\ mdbuf' = mdbuf /\ mdfile' = mdfile /\ files' = files /\ dirs' = dirs

\* C11 as stated: set on a closed writer raises and changes neither the id
\* counter, the shard buffer, the manifest nor the key index.
C11_ClosedSetRaises ==
  [][(res'.op = "set" /\ ~w.open) => (res'.err # OK /\ WriterUnchanged)]_vars

\* C11 amended: set on a closed writer returns False without raising and
\* changes neither the id counter, the shard buffer, the manifest nor the
\* key index.
C11_ClosedSetIgnored ==
  [][(res'.op = "set" /\ ~w.open) =>
       (res'.err = OK /\ ~res'.flag /\ WriterUnchanged)]_vars

\* a set on a writer that was closed after one stored vector
C11_Witness ==
  /\ res.op = "set" /\ res.err = OK /\ ~res.flag
  /\ w.obj /\ ~w.open /\ w.t = 1
  /\ Len(mdfile.rows) = 1

\* C19: close() on a closed writer writes no shard file, appends no manifest
\* row and leaves the shard counter and the id counter as they were.
C19_SecondCloseIsNoOp ==
  [][(res'.op = "close" /\ ~w.open) => WriterUnchanged]_vars

\* a close that found the writer already closed, after a first close that
\* wrote a shard
C19_Witness ==
  /\ res.op = "close" /\ ~res.flag
  /\ w.obj /\ ~w.open /\ w.s = 1 /\ w.t = 1
  /\ DOMAIN files = {0}

\* C12 as stated: a close() that follows a successful open() clears the
\* matrix, the member list and the shape and closes the key index's
\* connection, and a get after a close fails.
C12_CloseReleases ==
  [][/\ (res.op = "ropen" /\ res.err = OK /\ res'.op = "rclose") =>
          (/\ rd'.matrix = << >> /\ rd'.members = << >> /\ rd'.shape = << >>
           /\ ~rkdb'.conn)
     /\ (res.op = "rclose" /\ res'.op = "get") => res'.err # OK]_vars

\* a component of the store is missing: map.db, shards/ or metadata.tsv
MissingComponent == ~db.exists \/ ~dirs.shards \/ ~mdfile.exists

\* C13 as stated: Reader.open on a path with a component missing raises and
\* creates or modifies nothing on disk.
C13_OpenValidates ==
  [][(res'.op = "ropen" /\ MissingComponent) =>
       (/\ res'.err # OK
        /\ db' = db /\ mdfile' = mdfile /\ files' = files /\ dirs' = dirs)]_vars

\* ------------------------------------------------------------ vectors of a wrong length
\* Values whose length is not d: one of length 1, one of length d + 1.
VecShort == <<3>>
VecLong == [i \in 1..EmbeddingDim + 1 |-> 4]
WrongVecs == {VecShort, VecLong}

\* One writer on an empty path that is also handed values of a wrong
\* length, and a reader after it.
NextDim ==
  \/ (nwriters = 0 /\ WriterInit)
  \/ Open
  \/ \E key \in Keys, value \in Vecs \cup WrongVecs : Set(key, value, FALSE)
  \/ Close
  \/ ReaderInit
  \/ ReaderOpen
  \/ \E key \in Keys : ReaderGet(key)

SpecDim == Init /\ [][NextDim]_vars

\* C14 as stated: a set whose value has a length other than d, length 1
\* included, raises and leaves the shard buffer, the id counter, the key index
\* and the manifest as they were.
C14_WrongLengthRejected ==
  [][(res'.op = "set" /\ w.open /\ Len(res'.vec) # EmbeddingDim) =>
       (res'.err # OK /\ WriterUnchanged)]_vars

\* C15 as stated: for every k >= 1, k = 1 included, when the index answers
\* with registered rows nearest_neighbors raises nothing and returns, in the
\* index's order, the key registered for each of them.
C15_NeighborsResolved ==
  (res.op = "knn" /\ \A i \in 1..Len(res.vec) : \E p \in db.fwd : p[1] = res.vec[i]) =>
    /\ res.err = OK
    /\ Len(res.keys) = Len(res.vec)
    /\ \A i \in 1..Len(res.vec) : <<res.vec[i], res.keys[i]>> \in db.fwd

\* C16 as stated: get with a string goes through the backward relation and
\* get with an integer through the forward one; on an opened reader a
\* registered key or id returns the table's row of that id and an absent one,
\* an integer inside the table included, raises the not-found error.
C16_GetDispatch ==
  (res.op \in {"get", "geti"} /\ rkdb.conn /\ rd.matrix # << >>) =>
    IF res.op = "get"
    THEN IF \E p \in db.bwd : p[1] = res.key
         THEN \E p \in db.bwd :
                /\ p[1] = res.key /\ p[2] < Len(rd.matrix)
                /\ res.err = OK /\ res.vec = rd.matrix[p[2] + 1]
         ELSE res.err = "ValueError" /\ res.vec = NoVec
    ELSE IF \E p \in db.fwd : p[1] = res.id
         THEN res.id < Len(rd.matrix) /\ res.err = OK
              /\ res.vec = rd.matrix[res.id + 1]
         ELSE res.err = "ValueError" /\ res.vec = NoVec

\* C17: add(id, key) with an id already present raises and never
\* overwrites: both relations stay as they were and retrieve(id, forward)
\* still finds the key registered before.
C17_DuplicateIdRejected ==
  [][(res'.op = "add" /\ \E p \in Fwd(World) : p[1] = res'.vec[1]) =>
       /\ res'.err # OK
       /\ db'.fwd \cup kdb'.pf = Fwd(World)
       /\ db'.bwd \cup kdb'.pb = Bwd(World)
       /\ Retrieve(db'.fwd \cup kdb'.pf, db'.bwd \cup kdb'.pb, res'.vec[1], "forward")
            = Retrieve(Fwd(World), Bwd(World), res'.vec[1], "forward")
       /\ \A p \in db'.fwd \cup kdb'.pf : p[1] = res'.vec[1] => p \in Fwd(World)]_vars

\* C18: a pair added is visible to retrieve and keys on the same connection
\* whether committed or not and stays visible until a crash; a crash keeps
\* exactly the committed pairs, and pairs become committed only by commit,
\* close or an add with commit set.
C18_ReadYourWrites ==
  [][/\ (res'.op = "add" /\ res'.err = OK /\ ~kdb.read_only) =>
          /\ <<res'.vec[1], res'.key>> \in db'.fwd \cup kdb'.pf
          /\ <<res'.key, res'.vec[1]>> \in db'.bwd \cup kdb'.pb
     /\ res'.op # "kill" =>
          (Fwd(World) \subseteq db'.fwd \cup kdb'.pf /\ Bwd(World) \subseteq db'.bwd \cup kdb'.pb)
     /\ (res'.op = "retrieve" /\ res'.err = OK) =>
          /\ res'.flag <=> \E p \in db.fwd \cup kdb.pf : p[1] = res'.vec[1]
          /\ res'.flag => <<res'.vec[1], res'.key>> \in db.fwd \cup kdb.pf
     /\ (res'.op = "retrieveb" /\ res'.err = OK) =>
          /\ res'.flag <=> \E p \in db.bwd \cup kdb.pb : p[1] = res'.key
          /\ res'.flag => <<res'.key, res'.vec[1]>> \in db.bwd \cup kdb.pb
     /\ (res'.op = "keys" /\ res'.err = OK) =>
          res'.keys = {p[1] : p \in db.bwd \cup kdb.pb}
     /\ res'.op = "kill" => (db' = db /\ kdb'.pf = {} /\ kdb'.pb = {})
     /\ db' # db => (res'.op \in {"commit", "mclose", "mopen"} \/ (res'.op = "add" /\ res'.flag))
    ]_vars

\* a retrieve that found a pair added on this connection and not committed
C18_Witness ==
  /\ res.op = "retrieve" /\ res.err = OK /\ res.flag
  /\ <<res.vec[1], res.key>> \in kdb.pf
  /\ <<res.key, res.vec[1]>> \in kdb.pb
  /\ <<res.vec[1], res.key>> \notin db.fwd
  /\ db.fwd # {}

\* vectors the current shard holds: the ids handed out beyond the shards
\* already flushed
Held == w.t - ShardSize * w.s

\* C20 as stated: a set on an open writer returns true exactly when it
\* flushed a shard, which happens exactly when the current shard held n
\* vectors at the start of the call; a call that returns false leaves the
\* shard files, the manifest and map.db as they were.
C20_TrueExactlyOnRollover ==
  [][(res'.op = "set" /\ w.open) =>
       /\ res'.flag <=> (w'.s = w.s + 1)
       /\ (w'.s = w.s + 1) <=> (Held = ShardSize)
       /\ ~res'.flag => (files' = files /\ mdfile' = mdfile /\ db' = db)]_vars

\* C21 as stated: a close() of an open writer writes a shard file and a
\* manifest row exactly when the current shard holds at least one vector; an
\* open() followed directly by close() writes neither.
C21_CloseSavesNonEmptyOnly ==
  [][(res'.op = "close" /\ w.open) =>
       /\ (DOMAIN files' # DOMAIN files) <=> (Held >= 1)
       /\ (Len(mdfile'.rows \o mdbuf'.rows) = Len(ManifestRows) + 1) <=> (Held >= 1)]_vars

\* C22 as stated: in every state of a writer session the ids registered in
\* the key index are exactly 0 .. t-1, and the k-th completed set registered
\* its key under id k-1.
C22_IdsAreDense ==
  (w.obj /\ nwriters = 1 /\ ~rd.obj) =>
    /\ {p[1] : p \in Fwd(World)} = 0..(w.t - 1)
    /\ {p[2] : p \in Bwd(World)} = 0..(w.t - 1)
    /\ \A k \in 1..Len(hist) : <<k - 1, hist[k][1]>> \in Fwd(World)

\* C23 as stated: a set on an open writer stores its vector in slot t mod n
\* of the buffer while the shard counter equals t div n, whatever calls came
\* before.
C23_SlotAndShardOfId ==
  [][(res'.op = "set" /\ w.open /\ Len(res'.vec) = EmbeddingDim) =>
       /\ w'.shard[(w.t % ShardSize) + 1] = res'.vec
       /\ w'.s = w.t \div ShardSize]_vars

\* C24 as stated: an open() that directly follows a successful open() leaves
\* the shape, the matrix and the list of mapped members as they were.
C24_ReaderOpenIdempotent ==
  [][(res.op = "ropen" /\ res.err = OK /\ res'.op = "ropen") =>
       (rd'.shape = rd.shape /\ rd'.matrix = rd.matrix /\ rd'.members = rd.members)]_vars

====
